---- MODULE Spec2Model ----
(***************************************************************************)
(* A model of script.py: the IPTV playlist pipeline (fetch -> parse ->     *)
(* liveness check -> category clean -> serialize -> write).                *)
(* Text is modelled character by character: a Python str is a TLA+ string, *)
(* read through Len, SubSeq and \o.                                        *)
(***************************************************************************)
EXTENDS Integers, Sequences, FiniteSets, TLC

VARIABLES
    pc,               \* position of the operation under way
    env,              \* the world outside: what each source and each URL check
                      \* answers, and the output file before the run
    src_i,            \* process_m3u_sources: index of the source being fetched
    heap,             \* the Channel objects, in creation order
    all_channels,     \* main: list of references into heap
    task,             \* remove_dead_links: state of each check_url task
    response,         \* what the request of each check_url task met
    results,          \* gather's result slots, one per task
    sem,              \* value of the asyncio.Semaphore
    channels,         \* main: the references remove_dead_links returned
    cleaned_channels, \* main: the references the last clean_channels returned
    exc,              \* the exception that left main, "none" when there is none
    file,             \* filtered_playlist.m3u
    arg,              \* argument of a function called on its own
    text,             \* playlist text between generate_m3u and parse_m3u
    ret               \* return value of that function

vars == <<pc, env, src_i, heap, all_channels, task, response, results, sem,
          channels, cleaned_channels, exc, file, arg, text, ret>>

----------------------------------------------------------------------------
(* Python str primitives used by the script, over ASCII text *)

Char(s, i) == SubSeq(s, i, i)

Drop(s, n) == SubSeq(s, n + 1, Len(s))

Take(s, n) == SubSeq(s, 1, n)

\* characters str.strip() and str.split() treat as whitespace
IsSpace(c) == c \in {" ", "\t", "\n", "\r", "\f"}

\* characters str.splitlines() breaks a line at
IsLineBreak(c) == c \in {"\n", "\r", "\f"}

UpperCase == "ABCDEFGHIJKLMNOPQRSTUVWXYZ"

LowerCase == "abcdefghijklmnopqrstuvwxyz"

\* the lower-case letter of each upper-case letter
ToLower ==
    [c \in { Char(UpperCase, i) : i \in 1..Len(UpperCase) } |->
        Char(LowerCase, CHOOSE i \in 1..Len(UpperCase) : Char(UpperCase, i) = c)]

\* the upper-case letter of each lower-case letter
ToUpper ==
    [c \in { Char(LowerCase, i) : i \in 1..Len(LowerCase) } |->
        Char(UpperCase, CHOOSE i \in 1..Len(LowerCase) : Char(LowerCase, i) = c)]

IsUpper(c) == c \in DOMAIN ToLower

IsLower(c) == c \in DOMAIN ToUpper

IsCased(c) == IsUpper(c) \/ IsLower(c)

LowerChar(c) == IF IsUpper(c) THEN ToLower[c] ELSE c

UpperChar(c) == IF IsLower(c) THEN ToUpper[c] ELSE c

RECURSIVE Lower(_)
\* str.lower()
Lower(s) ==
    IF s = "" THEN "" ELSE LowerChar(Char(s, 1)) \o Lower(Drop(s, 1))

RECURSIVE TitleFrom(_, _)
\* the characters of s from position i on, title-cased
TitleFrom(s, i) ==
    IF i > Len(s) THEN ""
    ELSE (IF i = 1 \/ ~IsCased(Char(s, i - 1))
          THEN UpperChar(Char(s, i))
          ELSE LowerChar(Char(s, i))) \o TitleFrom(s, i + 1)

\* str.title(): a cased character is upper-cased after an uncased one (or at
\* the start) and lower-cased after a cased one
Title(s) == TitleFrom(s, 1)

\* str.strip()
Strip(s) ==
    IF \A i \in 1..Len(s) : IsSpace(Char(s, i))
    THEN ""
    ELSE LET lo == CHOOSE i \in 1..Len(s) :
                     /\ ~IsSpace(Char(s, i))
                     /\ \A j \in 1..(i - 1) : IsSpace(Char(s, j))
             hi == CHOOSE i \in 1..Len(s) :
                     /\ ~IsSpace(Char(s, i))
                     /\ \A j \in (i + 1)..Len(s) : IsSpace(Char(s, j))
         IN  SubSeq(s, lo, hi)

\* str.startswith(p)
StartsWith(s, p) == Len(s) >= Len(p) /\ Take(s, Len(p)) = p

\* p in s
Contains(s, p) ==
    \E i \in 1..(Len(s) - Len(p) + 1) : SubSeq(s, i, i + Len(p) - 1) = p

\* a character that separates: a line break (lines) or whitespace (words)
IsBreak(c, lines) == IF lines THEN IsLineBreak(c) ELSE IsSpace(c)

RECURSIVE SplitAt(_, _)
\* the maximal runs of s without a separator; the empty runs between two
\* separators are kept for lines and dropped for words
SplitAt(s, lines) ==
    IF s = "" THEN <<>>
    ELSE IF \E i \in 1..Len(s) : IsBreak(Char(s, i), lines)
    THEN LET b == CHOOSE i \in 1..Len(s) :
                    /\ IsBreak(Char(s, i), lines)
                    /\ \A j \in 1..(i - 1) : ~IsBreak(Char(s, j), lines)
             first == Take(s, b - 1)
             rest == SplitAt(Drop(s, b), lines)
         IN  IF first = "" /\ ~lines THEN rest ELSE <<first>> \o rest
    ELSE <<s>>

\* str.splitlines(): no empty last line after a final line break. A "\r\n"
\* pair, one break for Python, gives an empty line more here; parse_m3u
\* passes over empty lines.
SplitLines(s) == SplitAt(s, TRUE)

\* str.split() without argument: runs of whitespace separate, none is empty
SplitWords(s) == SplitAt(s, FALSE)

RECURSIVE Join(_, _)
\* sep.join(words)
Join(sep, words) ==
    IF words = <<>> THEN ""
    ELSE IF Len(words) = 1 THEN words[1]
    ELSE words[1] \o sep \o Join(sep, Tail(words))

----------------------------------------------------------------------------
(* Configuration *)

\* CATEGORY_MAPPING, in declaration order (dict iteration order)
CATEGORY_MAPPING ==
    << [key |-> "Sport", value |-> "Sports"],
       [key |-> "Movie", value |-> "Movies"],
       [key |-> "News", value |-> "News & Politics"] >>

FILTER_CATEGORIES == <<"Adult", "XXX", "Erotic">>

\* asyncio.Semaphore(10)
SemPermits == 10

\* number of entries of M3U_SOURCES
NumSources == 3

----------------------------------------------------------------------------
(* difflib.get_close_matches(word, keys, n=1, cutoff=0.7) *)

\* the blocks a[i..i+k-1] = b[j..j+k-1] inside a[alo..ahi], b[blo..bhi]
CommonBlocks(a, b, alo, ahi, blo, bhi) ==
    { t \in (alo..ahi) \X (blo..bhi) \X (1..(ahi - alo + 1)) :
        /\ t[1] + t[3] - 1 <= ahi
        /\ t[2] + t[3] - 1 <= bhi
        /\ SubSeq(a, t[1], t[1] + t[3] - 1) = SubSeq(b, t[2], t[2] + t[3] - 1) }

\* SequenceMatcher.find_longest_match: of the blocks, the longest one, of
\* those the one starting earliest in a, of those the one starting earliest
\* in b
LongestMatch(blocks) ==
    CHOOSE t \in blocks :
      \A u \in blocks :
        \/ t[3] > u[3]
        \/ t[3] = u[3] /\ t[1] < u[1]
        \/ t[3] = u[3] /\ t[1] = u[1] /\ t[2] <= u[2]

RECURSIVE Matches(_, _, _, _, _, _)
\* SequenceMatcher.get_matching_blocks, summed: the longest block, then the
\* same to its left and to its right
Matches(a, b, alo, ahi, blo, bhi) ==
    IF alo > ahi \/ blo > bhi THEN 0
    ELSE LET blocks == CommonBlocks(a, b, alo, ahi, blo, bhi)
             t == LongestMatch(blocks)
         IN  IF blocks = {} THEN 0
             ELSE t[3] + Matches(a, b, alo, t[1] - 1, blo, t[2] - 1)
                       + Matches(a, b, t[1] + t[3], ahi, t[2] + t[3], bhi)

Min(x, y) == IF x <= y THEN x ELSE y

\* 2.0 * matches / length >= 0.7, and 1.0 >= 0.7 when length is 0
AtCutoff(matches, length) == length = 0 \/ 20 * matches >= 7 * length

\* characters in code point order, for the comparison of two keys
CodePoints == UpperCase \o LowerCase

Ord(c) == CHOOSE i \in 1..Len(CodePoints) : Char(CodePoints, i) = c

RECURSIVE StrLess(_, _)
\* x < y for two strings of letters
StrLess(x, y) ==
    IF y = "" THEN FALSE
    ELSE IF x = "" THEN TRUE
    ELSE IF Char(x, 1) # Char(y, 1) THEN Ord(Char(x, 1)) < Ord(Char(y, 1))
    ELSE StrLess(Drop(x, 1), Drop(y, 1))

\* difflib.get_close_matches(word, CATEGORY_MAPPING.keys(), n=1, cutoff=0.7):
\* the index of the key returned, 0 for an empty list. With seq1 the key and
\* seq2 the word, a key is kept when real_quick_ratio() (the shorter length
\* as the number of matches) and then ratio() reach the cutoff; quick_ratio(),
\* tested between the two, is an upper bound of ratio() and rejects nothing
\* that ratio() accepts. heapq.nlargest(1, [(ratio, key)]) then gives the
\* highest ratio and, among equals, the greatest key.
get_close_matches(word) ==
    LET key(k) == CATEGORY_MAPPING[k].key
        length(k) == Len(key(k)) + Len(word)
        quick(k) == AtCutoff(Min(Len(key(k)), Len(word)), length(k))
        matches == [k \in DOMAIN CATEGORY_MAPPING |->
                      IF quick(k)
                      THEN Matches(key(k), word, 1, Len(key(k)), 1, Len(word))
                      ELSE 0]
        close == { k \in DOMAIN CATEGORY_MAPPING :
                     quick(k) /\ AtCutoff(matches[k], length(k)) }
        \* ratio(k) > ratio(l) and ratio(k) = ratio(l), cross-multiplied
        better(k, l) == matches[k] * length(l) > matches[l] * length(k)
        same(k, l) == matches[k] * length(l) = matches[l] * length(k)
    IN  IF close = {} THEN 0
        ELSE CHOOSE k \in close :
               \A l \in close \ {k} :
                 better(k, l) \/ (same(k, l) /\ StrLess(key(l), key(k)))

----------------------------------------------------------------------------
(* normalize_category and clean_channels *)

\* the first mapping key, in declaration order, that is a substring of
\* category (both lower-cased); 0 when there is none
FirstSubstringKey(category) ==
    LET lowered == Lower(category)
        hit(k) == Contains(lowered, Lower(CATEGORY_MAPPING[k].key))
    IN  IF \E k \in 1..Len(CATEGORY_MAPPING) : hit(k)
        THEN CHOOSE k \in 1..Len(CATEGORY_MAPPING) :
               hit(k) /\ \A l \in 1..(k - 1) : ~hit(l)
        ELSE 0

normalize_category(category0, use_mapping, use_difflib) ==
    LET category == Join(" ", SplitWords(Title(Strip(category0))))
        match == get_close_matches(category)
        key == FirstSubstringKey(category)
    IN  IF use_mapping /\ use_difflib /\ match # 0
        THEN CATEGORY_MAPPING[match].value
        ELSE IF use_mapping /\ ~use_difflib /\ key # 0
        THEN CATEGORY_MAPPING[key].value
        ELSE category

\* any(f.lower() in normalized_category.lower() for f in FILTER_CATEGORIES)
IsFiltered(normalized_category) ==
    LET lowered == Lower(normalized_category)
    IN  \E f \in 1..Len(FILTER_CATEGORIES) :
          Contains(lowered, Lower(FILTER_CATEGORIES[f]))

RECURSIVE clean_channels(_, _, _, _)
\* The loop of clean_channels over the references refs into the heap h: a
\* kept channel has its category assigned in place and its reference
\* appended. Returns the heap after the loop and the list cleaned.
clean_channels(h, refs, use_mapping, use_difflib) ==
    IF refs = <<>> THEN [heap |-> h, cleaned |-> <<>>]
    ELSE LET ch == Head(refs)
             normalized_category ==
                 normalize_category(h[ch].category, use_mapping, use_difflib)
         IN  IF IsFiltered(normalized_category)
             THEN clean_channels(h, Tail(refs), use_mapping, use_difflib)
             ELSE LET h2 == [h EXCEPT ![ch].category = normalized_category]
                      r == clean_channels(h2, Tail(refs), use_mapping, use_difflib)
                  IN  [heap |-> r.heap, cleaned |-> <<ch>> \o r.cleaned]

----------------------------------------------------------------------------
(* parse_m3u and generate_m3u *)

\* A Channel: name, category, url. The metadata field is left out: it is
\* always the empty default and no operation reads it.
Channel(name, category, url) ==
    [name |-> name, category |-> category, url |-> url]

\* a regex group that did not take part in the match
None == [some |-> FALSE, val |-> ""]

Some(v) == [some |-> TRUE, val |-> v]

\* Python truth of a group: matched and not empty
Truthy(g) == g.some /\ g.val # ""

Quote == "\""

\* the position of the first quote of line at or after position p, 0 if none
NextQuote(line, p) ==
    IF \E q \in p..Len(line) : Char(line, q) = Quote
    THEN CHOOSE q \in p..Len(line) :
           Char(line, q) = Quote /\ \A r \in p..(q - 1) : Char(line, r) # Quote
    ELSE 0

\* key="([^"]*)" matched at position p of line: the group, or None
AttrAt(line, p, key) ==
    LET open == key \o "=" \o Quote
        from == p + Len(open)
    IN  IF p >= 1 /\ from - 1 <= Len(line) /\ SubSeq(line, p, from - 1) = open
           /\ NextQuote(line, from) # 0
        THEN Some(SubSeq(line, from, NextQuote(line, from) - 1))
        ELSE None

\* re.search found nothing
NoMatch == [matched |-> FALSE, g1 |-> "", g2 |-> None, g3 |-> None]

\* one of the two category attributes matches at position e of line
CategoryAt(line, e) ==
    AttrAt(line, e, "tvg-group").some \/ AttrAt(line, e, "group-title").some

RECURSIVE LastCategoryAt(_, _, _)
\* the last position in p..e of line where a category attribute matches, 0 if none
LastCategoryAt(line, p, e) ==
    IF e < p THEN 0
    ELSE IF CategoryAt(line, e) THEN e
    ELSE LastCategoryAt(line, p, e - 1)

\* the regex of parse_m3u matched with tvg-name=" at position s of line:
\*   tvg-name="([^"]*)".*(?:tvg-group="([^"]*)"|group-title="([^"]*)").*
\* The greedy .* gives the alternation its last position in the line.
MatchAt(line, s) ==
    LET g1 == AttrAt(line, s, "tvg-name")
        p == s + Len("tvg-name=") + 1 + Len(g1.val) + 1
        e == LastCategoryAt(line, p, Len(line))
    IN  IF g1.some /\ e # 0
        THEN [matched |-> TRUE, g1 |-> g1.val,
              g2 |-> AttrAt(line, e, "tvg-group"),
              g3 |-> AttrAt(line, e, "group-title")]
        ELSE NoMatch

RECURSIVE SearchFrom(_, _)
\* the match at the leftmost position from s on that has one
SearchFrom(line, s) ==
    IF s > Len(line) THEN NoMatch
    ELSE IF MatchAt(line, s).matched THEN MatchAt(line, s)
    ELSE SearchFrom(line, s + 1)

\* re.search
Search(line) == SearchFrom(line, 1)

\* the dict current_channel with d[k] = v
Put(d, k, v) == [x \in DOMAIN d \cup {k} |-> IF x = k THEN v ELSE d[x]]

\* match.group(1).strip() or "Unknown Channel"
NameOf(m) == IF Strip(m.g1) # "" THEN Strip(m.g1) ELSE "Unknown Channel"

\* (match.group(2) or match.group(3) or "Various").strip()
CategoryOf(m) ==
    Strip(IF Truthy(m.g2) THEN m.g2.val
          ELSE IF Truthy(m.g3) THEN m.g3.val
          ELSE "Various")

\* One pass of the loop body of parse_m3u over the line line0, from the
\* state [channels, current_channel].
ParseLine(st, line0) ==
    LET line == Strip(line0)
        cur == st.current_channel
    IN  IF StartsWith(line, "#EXTINF")
        THEN LET m == Search(line)
             IN  IF m.matched
                 THEN [st EXCEPT !.current_channel =
                          Put(Put(cur, "name", NameOf(m)), "category", CategoryOf(m))]
                 ELSE st
        ELSE IF line # "" /\ ~StartsWith(line, "#")
        THEN LET cur2 == Put(cur, "url", Strip(line))
             IN  IF {"name", "category", "url"} \subseteq DOMAIN cur2
                 THEN [channels |-> Append(st.channels,
                          Channel(cur2["name"], cur2["category"], cur2["url"])),
                       current_channel |-> <<>>]
                 ELSE [st EXCEPT !.current_channel = cur2]
        ELSE st

RECURSIVE ParseLines(_, _)
ParseLines(st, lines) ==
    IF lines = <<>> THEN st
    ELSE ParseLines(ParseLine(st, Head(lines)), Tail(lines))

parse_m3u(m3u_content) ==
    ParseLines([channels |-> <<>>, current_channel |-> <<>>],
               SplitLines(m3u_content)).channels

RECURSIVE generate_m3u_unterminated(_)
\* generate_m3u without the line break after the url
generate_m3u_unterminated(chs) ==
    IF chs = <<>> THEN ""
    ELSE LET ch == Head(chs)
         IN  "#EXTINF:-1 tvg-name=" \o Quote \o ch.name \o Quote
               \o " tvg-group=" \o Quote \o ch.category \o Quote
               \o "," \o ch.name \o "\n"
               \o ch.url
               \o generate_m3u_unterminated(Tail(chs))

RECURSIVE generate_m3u_body(_)
generate_m3u_body(chs) ==
    IF chs = <<>> THEN ""
    ELSE LET ch == Head(chs)
         IN  "#EXTINF:-1 tvg-name=" \o Quote \o ch.name \o Quote
               \o " tvg-group=" \o Quote \o ch.category \o Quote
               \o "," \o ch.name \o "\n"
               \o ch.url \o "\n"
               \o generate_m3u_body(Tail(chs))

generate_m3u(chs) == "#EXTM3U\n" \o generate_m3u_body(chs)

----------------------------------------------------------------------------
(* The requests: download_m3u and check_url *)

\* what a request can meet
AnswerKinds ==
    {"ok", "network_error", "bad_status", "connect_timeout", "timeout",
     "other_error"}

\* The exception a request raises: a network error is an
\* aiohttp.ClientConnectionError, a non-2xx status makes raise_for_status
\* raise aiohttp.ClientResponseError, the timeout running out while the
\* connection is set up is turned into aiohttp.ServerTimeoutError, the
\* timeout running out while the response is awaited raises
\* asyncio.TimeoutError, anything else is some other Exception.
ExceptionOf(kind) ==
    CASE kind = "ok" -> "none"
      [] kind = "network_error" -> "ClientConnectionError"
      [] kind = "bad_status" -> "ClientResponseError"
      [] kind = "connect_timeout" -> "ServerTimeoutError"
      [] kind = "timeout" -> "TimeoutError"
      [] kind = "other_error" -> "Exception"

\* issubclass(e, cls) among the classes above
IsSubclass(e, cls) ==
    \/ e = cls
    \/ cls = "ClientError"
         /\ e \in {"ClientConnectionError", "ClientResponseError",
                   "ServerTimeoutError"}
    \/ cls = "TimeoutError" /\ e = "ServerTimeoutError"
    \/ cls = "Exception" /\ e # "none"

\* an except clause naming the classes handlers takes e
Caught(e, handlers) == \E cls \in handlers : IsSubclass(e, cls)

\* outcome of a coroutine: its return value, or the exception it raised
Returned(v) == [raised |-> "none", value |-> v]

Raised(e) == [raised |-> e, value |-> None]

\* download_m3u with the request meeting answer: except aiohttp.ClientError
download_m3u(answer) ==
    LET e == ExceptionOf(answer.kind)
    IN  IF e = "none" THEN Returned(Some(answer.body))
        ELSE IF Caught(e, {"ClientError"}) THEN Returned(None)
        ELSE Raised(e)

\* check_url, from the request on, with the request meeting kind:
\* except (aiohttp.ClientError, asyncio.TimeoutError)
check_url(kind, url) ==
    LET e == ExceptionOf(kind)
    IN  IF e = "none" THEN Returned(Some(url))
        ELSE IF Caught(e, {"ClientError", "TimeoutError"}) THEN Returned(None)
        ELSE Raised(e)

----------------------------------------------------------------------------
(* main *)

NoFile == [exists |-> FALSE, content |-> ""]

FileWith(content) == [exists |-> TRUE, content |-> content]

\* the references of the n objects created after the first base ones
NewRefs(base, n) == [i \in 1..n |-> base + i]

\* One iteration of the loop of process_m3u_sources: the source is fetched;
\* a timeout leaves download_m3u, process_m3u_sources and main as an
\* exception; a body that is not empty is parsed and its channels appended.
\* After the last source main goes on to remove_dead_links.
FetchSource ==
    /\ pc = "process_m3u_sources"
    /\ src_i <= Len(env.sources)
    /\ LET r == download_m3u(env.sources[src_i])
           m3u_content == r.value
           parsed == IF Truthy(m3u_content) THEN parse_m3u(m3u_content.val)
                     ELSE <<>>
       IN  IF r.raised # "none"
           THEN /\ pc' = "raised"
                /\ exc' = r.raised
                /\ UNCHANGED <<src_i, heap, all_channels>>
           ELSE /\ heap' = heap \o parsed
                /\ all_channels' = all_channels \o NewRefs(Len(heap), Len(parsed))
                /\ src_i' = src_i + 1
                /\ pc' = IF src_i = Len(env.sources) THEN "remove_dead_links"
                         ELSE pc
                /\ exc' = exc
    /\ UNCHANGED <<env, task, response, results, sem, channels,
                   cleaned_channels, file, arg, text, ret>>

\* remove_dead_links up to the await: the semaphore and one task per channel
StartChecks ==
    /\ pc = "remove_dead_links"
    /\ sem' = SemPermits
    /\ task' = [i \in 1..Len(all_channels) |-> "waiting"]
    /\ response' = [i \in 1..Len(all_channels) |-> "none"]
    /\ results' = [i \in 1..Len(all_channels) |-> None]
    /\ pc' = "gather"
    /\ UNCHANGED <<env, src_i, heap, all_channels, channels, cleaned_channels,
                   exc, file, arg, text, ret>>

\* check_url without the semaphore: task i sends its request at once
AcquireUnbounded(i) ==
    /\ pc = "gather"
    /\ task[i] = "waiting"
    /\ \A j \in 1..(i - 1) : task[j] # "waiting"
    /\ sem' = sem - 1
    /\ task' = [task EXCEPT ![i] = "in_flight"]
    /\ UNCHANGED <<pc, env, src_i, heap, all_channels, response, results,
                   channels, cleaned_channels, exc, file, arg, text, ret>>

\* async with sem, entry: task i takes a permit and sends its request. The
\* tasks start in list order and the semaphore wakes its waiters first come
\* first served.
Acquire(i) ==
    /\ pc = "gather"
    /\ task[i] = "waiting"
    /\ \A j \in 1..(i - 1) : task[j] # "waiting"
    /\ sem > 0
    /\ sem' = sem - 1
    /\ task' = [task EXCEPT ![i] = "in_flight"]
    /\ UNCHANGED <<pc, env, src_i, heap, all_channels, response, results,
                   channels, cleaned_channels, exc, file, arg, text, ret>>

\* results collected as the tasks complete: the value goes to the first slot
\* that holds nothing yet
StoreInCompletionOrder(slots, i, v) ==
    LET k == CHOOSE k \in DOMAIN slots :
               slots[k] = None /\ \A j \in 1..(k - 1) : slots[j] # None
    IN  [slots EXCEPT ![k] = v]

\* gather keeps the value of the i-th awaitable in its i-th slot
StoreResult(slots, i, v) == [slots EXCEPT ![i] = v]

\* the semaphore after the exit of one async with sem
Release(s) == s + 1

\* what the request of task i can meet: anything, unless env.checks says
ChecksOf(i) == IF i \in DOMAIN env.checks THEN env.checks[i] ELSE AnswerKinds

\* The request of task i ends, meeting kind: check_url returns the url or
\* None, or raises; the permit is released on the way out of async with.
Complete(i, kind) ==
    /\ pc = "gather"
    /\ task[i] = "in_flight"
    /\ kind \in ChecksOf(i)
    /\ LET r == check_url(kind, heap[all_channels[i]].url)
       IN  /\ task' = [task EXCEPT ![i] =
                          IF r.raised = "none" THEN "returned" ELSE r.raised]
           /\ results' = IF r.raised = "none"
                         THEN StoreResult(results, i, r.value)
                         ELSE results
    /\ response' = [response EXCEPT ![i] = kind]
    /\ sem' = Release(sem)
    /\ UNCHANGED <<pc, env, src_i, heap, all_channels, channels,
                   cleaned_channels, exc, file, arg, text, ret>>

TaskStates == {"waiting", "in_flight", "returned", "cancelled"}

RECURSIVE Alive(_, _)
\* [ch for ch, result in zip(channels, results) if result is not None]
Alive(chs, slots) ==
    IF chs = <<>> \/ slots = <<>> THEN <<>>
    ELSE (IF Head(slots) # None THEN <<Head(chs)>> ELSE <<>>)
           \o Alive(Tail(chs), Tail(slots))

\* gather returns once every task has returned; remove_dead_links returns
\* the channels whose slot is not None
GatherReturn ==
    /\ pc = "gather"
    /\ \A i \in DOMAIN task : task[i] = "returned"
    /\ channels' = Alive(all_channels, results)
    /\ pc' = "clean_channels_1"
    /\ UNCHANGED <<env, src_i, heap, all_channels, task, response, results, sem,
                   cleaned_channels, exc, file, arg, text, ret>>

\* gather, without return_exceptions, passes on the first exception of a
\* task: it leaves remove_dead_links and main, and asyncio.run cancels the
\* tasks still under way, each releasing the permit it holds.
GatherRaise ==
    /\ pc = "gather"
    /\ \E i \in DOMAIN task :
         /\ task[i] \notin TaskStates
         /\ exc' = task[i]
    /\ pc' = "raised"
    /\ task' = [i \in DOMAIN task |->
                  IF task[i] \in {"waiting", "in_flight"} THEN "cancelled"
                  ELSE task[i]]
    /\ sem' = sem + Cardinality({i \in DOMAIN task : task[i] = "in_flight"})
    /\ UNCHANGED <<env, src_i, heap, all_channels, response, results, channels,
                   cleaned_channels, file, arg, text, ret>>

\* one call cleaned_channels = clean_channels(channels, ...) of main
CleanStep(at, use_mapping, use_difflib, next) ==
    /\ pc = at
    /\ LET r == clean_channels(heap, channels, use_mapping, use_difflib)
       IN  /\ heap' = r.heap
           /\ cleaned_channels' = r.cleaned
    /\ pc' = next
    /\ UNCHANGED <<env, src_i, all_channels, task, response, results, sem,
                   channels, exc, file, arg, text, ret>>

\* cleaned_channels = clean_channels(channels)
Clean1 == CleanStep("clean_channels_1", FALSE, FALSE, "clean_channels_2")

\* cleaned_channels = clean_channels(channels, use_mapping=True)
Clean2 == CleanStep("clean_channels_2", TRUE, FALSE, "clean_channels_3")

\* cleaned_channels = clean_channels(channels, use_mapping=True, use_difflib=True)
Clean3 == CleanStep("clean_channels_3", TRUE, TRUE, "write")

\* the objects the references refs point to
Deref(h, refs) == [i \in 1..Len(refs) |-> h[refs[i]]]

\* final_m3u = generate_m3u(cleaned_channels), written over the output file
WriteFile ==
    /\ pc = "write"
    /\ file' = FileWith(generate_m3u(Deref(heap, cleaned_channels)))
    /\ pc' = "done"
    /\ UNCHANGED <<env, src_i, heap, all_channels, task, response, results, sem,
                   channels, cleaned_channels, exc, arg, text, ret>>

----------------------------------------------------------------------------
(* The runs of main *)

\* playlists a source answers with
Bodies ==
    { "",
      "#EXTM3U\n#EXTINF:-1 tvg-name=\"Kanal1\" group-title=\"XXX Movies\",Kanal1\nhttp://x/1\n",
      "#EXTINF:-1 tvg-name=\"Kanal2\" tvg-group=\"Sport Channel\",Kanal2\nhttp://x/2\n" }

\* what the request of a source can meet
SourceAnswers ==
    [kind : {"ok"}, body : Bodies]
      \cup [kind : {"network_error", "bad_status", "connect_timeout", "timeout"},
            body : {""}]

\* the output file before the run: absent, or left by an earlier run
FilesBefore == {NoFile, FileWith("#EXTM3U\n")}

\* state of the variables no run of main has touched yet
Idle ==
    /\ src_i = 1
    /\ heap = <<>>
    /\ all_channels = <<>>
    /\ task = <<>>
    /\ response = <<>>
    /\ results = <<>>
    /\ sem = 0
    /\ channels = <<>>
    /\ cleaned_channels = <<>>
    /\ exc = "none"
    /\ arg = <<>>
    /\ text = ""
    /\ ret = <<>>

Init ==
    /\ pc = "process_m3u_sources"
    /\ env \in [sources : [1..NumSources -> SourceAnswers],
                checks : {<<>>},
                file0 : FilesBefore]
    /\ file = env.file0
    /\ Idle

Next ==
    \/ FetchSource
    \/ StartChecks
    \/ \E i \in DOMAIN task : Acquire(i)
    \/ \E i \in DOMAIN task, kind \in AnswerKinds : Complete(i, kind)
    \/ GatherReturn
    \/ GatherRaise
    \/ Clean1
    \/ Clean2
    \/ Clean3
    \/ WriteFile

Spec == Init /\ [][Next]_vars

----------------------------------------------------------------------------
(* remove_dead_links on its own, with more channels than permits *)

\* channels beyond the permits of the semaphore
ExtraChecks == 1

\* the answers of n requests, each settled beforehand: all alive, all timed
\* out, alive and bad status in turn, and one request failing with an error
\* check_url does not handle
CheckAnswers(n) ==
    { [i \in 1..n |-> {"ok"}],
      [i \in 1..n |-> {"timeout"}],
      [i \in 1..n |-> IF i % 2 = 1 THEN {"ok"} ELSE {"bad_status"}],
      [i \in 1..n |-> IF i = 2 THEN {"other_error"} ELSE {"network_error"}] }

InitSem ==
    /\ pc = "remove_dead_links"
    /\ \E n \in 0..(SemPermits + ExtraChecks) :
         /\ heap = [i \in 1..n |-> Channel("Kanal1", "Spor", "http://x/1")]
         /\ all_channels = [i \in 1..n |-> i]
         /\ env \in [sources : {<<>>}, checks : CheckAnswers(n), file0 : {NoFile}]
    /\ file = env.file0
    /\ src_i = 1
    /\ task = <<>>
    /\ response = <<>>
    /\ results = <<>>
    /\ sem = 0
    /\ channels = <<>>
    /\ cleaned_channels = <<>>
    /\ exc = "none"
    /\ arg = <<>>
    /\ text = ""
    /\ ret = <<>>

NextSem ==
    \/ StartChecks
    \/ \E i \in DOMAIN task : Acquire(i)
    \/ \E i \in DOMAIN task, kind \in AnswerKinds : Complete(i, kind)
    \/ GatherReturn
    \/ GatherRaise

SpecSem == InitSem /\ [][NextSem]_vars

----------------------------------------------------------------------------
(* parse_m3u, generate_m3u and clean_channels as functions *)

\* the variables of main, which a call of one function leaves alone
MainIdle ==
    /\ env = [sources |-> <<>>, checks |-> <<>>, file0 |-> NoFile]
    /\ file = NoFile
    /\ src_i = 1
    /\ heap = <<>>
    /\ all_channels = <<>>
    /\ task = <<>>
    /\ response = <<>>
    /\ results = <<>>
    /\ sem = 0
    /\ channels = <<>>
    /\ cleaned_channels = <<>>
    /\ exc = "none"

MainVars == <<env, file, src_i, heap, all_channels, task, response, results,
              sem, channels, cleaned_channels, exc>>

\* the sequences of at most n elements of S
SeqsUpTo(S, n) == UNION { [1..k -> S] : k \in 0..n }

\* lines of a playlist: directives with and without attributes, with blank
\* attribute values, a URL, a blank line, a comment
InputLines ==
    { "#EXTINF:-1 tvg-name=\"A\" tvg-group=\"G\",A",
      "#EXTINF:-1 tvg-name=\" \" group-title=\" \",B",
      "#EXTINF:-1 tvg-name=\"D\" tvg-group=\"\" group-title=\"T\"",
      "#EXTINF:-1,C",
      " http://x/1 ",
      "",
      "#EXTM3U" }

\* most lines of an input text
MaxLines == 3

InitParse ==
    /\ pc = "parse_m3u"
    /\ \E lines \in SeqsUpTo(InputLines, MaxLines) : text = Join("\n", lines)
    /\ arg = <<>>
    /\ ret = <<>>
    /\ MainIdle

\* ret = parse_m3u(text)
ParseText ==
    /\ pc = "parse_m3u"
    /\ ret' = parse_m3u(text)
    /\ pc' = "return"
    /\ UNCHANGED <<arg, text>>
    /\ UNCHANGED MainVars

NextParse == ParseText

SpecParse == InitParse /\ [][NextParse]_vars

\* channels to serialize: names, categories and urls that are plain, empty,
\* blank or padded, that hold a quote or a line break, or that start like a
\* comment
RoundTripChannels ==
    { Channel(n, c, u) : n \in {"Kanal 1", " Kanal", "", "Kanal\n1"},
                         c \in {"Spor", " ", "Sp\"or"},
                         u \in {"http://x/1", "#x"} }

\* most channels of a list to serialize
MaxRoundTrip == 2

InitRoundTrip ==
    /\ pc = "generate_m3u"
    /\ arg \in SeqsUpTo(RoundTripChannels, MaxRoundTrip)
    /\ text = ""
    /\ ret = <<>>
    /\ MainIdle

\* text = generate_m3u(arg)
GenerateText ==
    /\ pc = "generate_m3u"
    /\ text' = generate_m3u(arg)
    /\ pc' = "parse_m3u"
    /\ UNCHANGED <<arg, ret>>
    /\ UNCHANGED MainVars

NextRoundTrip == GenerateText \/ ParseText

SpecRoundTrip == InitRoundTrip /\ [][NextRoundTrip]_vars

\* categories of the channels to clean
CleanCategories ==
    {"XXX Movies", "Sport Channel", "Sports", " adult  tv", "News", "Spor"}

\* most channels of a list to clean
MaxCleanLen == 2

InitClean ==
    /\ pc = "clean_channels"
    /\ arg \in [channels : SeqsUpTo({Channel("Kanal1", c, "http://x/1") :
                                        c \in CleanCategories}, MaxCleanLen),
                use_mapping : BOOLEAN,
                use_difflib : BOOLEAN]
    /\ text = ""
    /\ ret = <<>>
    /\ MainIdle

\* ret = clean_channels(arg.channels, arg.use_mapping, arg.use_difflib), the
\* channels being the objects 1..n of the heap returned with the list
CleanCall ==
    /\ pc = "clean_channels"
    /\ ret' = clean_channels(arg.channels,
                             [i \in 1..Len(arg.channels) |-> i],
                             arg.use_mapping, arg.use_difflib)
    /\ pc' = "return"
    /\ UNCHANGED <<arg, text>>
    /\ UNCHANGED MainVars

NextClean == CleanCall

SpecClean == InitClean /\ [][NextClean]_vars

----------------------------------------------------------------------------
(* Properties *)

Range(f) == { f[i] : i \in DOMAIN f }

\* every source has been fetched and no channel was obtained
NoChannelsAggregated == src_i > Len(env.sources) /\ all_channels = <<>>

\* C1: when the sources together yield zero channels, main never writes the
\* output file: the file stays as it was before the run.
C1_NoChannelsNoOutput == NoChannelsAggregated => file = env.file0

RECURSIVE ParsedUpTo(_)
\* the channels of the bodies of the sources 1..s that answered ok, as the
\* parser produces them
ParsedUpTo(s) ==
    IF s = 0 THEN <<>>
    ELSE ParsedUpTo(s - 1)
           \o (IF env.sources[s].kind = "ok" THEN parse_m3u(env.sources[s].body)
               ELSE <<>>)

\* C2: whatever failure the fetch of a source meets (network error, non-2xx
\* status, timeout), the pipeline does not stop at that source, and once the
\* source is passed the channels aggregated are those of the sources that
\* answered: the failed source contributes none.
C2_FetchFailureSkipsSource ==
    \A s \in DOMAIN env.sources :
        env.sources[s].kind # "ok" =>
            /\ ~(pc = "raised" /\ src_i = s)
            /\ (pc = "process_m3u_sources" /\ src_i = s + 1) =>
                 Deref(heap, all_channels) = ParsedUpTo(s)

\* the tasks whose request failed
FailedChecks == { i \in DOMAIN response : response[i] \notin {"none", "ok"} }

\* C3: a check that fails in any way is a dead outcome for its channel only:
\* it returns None, no exception leaves remove_dead_links and no other check
\* is cancelled.
C3_FailedCheckIsDeadOnly ==
    FailedChecks # {} =>
        /\ \A i \in FailedChecks : task[i] = "returned" /\ results[i] = None
        /\ \A i \in DOMAIN task : task[i] # "cancelled"
        /\ exc = "none"

\* the number of checks that hold a permit
InFlight == Cardinality({ i \in DOMAIN task : task[i] = "in_flight" })

\* C4: once the semaphore exists, at most SemPermits checks hold a permit,
\* and the permits held and the permits free always add up to SemPermits:
\* every check that ends, on any outcome, has given its permit back, and a
\* check waits while no permit is free.
C4_PermitBound ==
    pc # "remove_dead_links" =>
        /\ InFlight <= SemPermits
        /\ sem >= 0
        /\ sem + InFlight = SemPermits

\* C4 witness: with more channels than permits, the last check holds a
\* permit while all permits are taken, after a failed check gave its back.
C4_Witness ==
    /\ Len(task) > SemPermits
    /\ task[Len(task)] = "in_flight"
    /\ InFlight = SemPermits
    /\ sem = 0
    /\ \E i \in DOMAIN task : task[i] = "returned" /\ response[i] = "bad_status"

RECURSIVE AnsweredOk(_)
\* the indices up to n whose request was answered ok, in increasing order
AnsweredOk(n) ==
    IF n = 0 THEN <<>>
    ELSE AnsweredOk(n - 1) \o (IF response[n] = "ok" THEN <<n>> ELSE <<>>)

\* remove_dead_links has returned
ChecksReturned ==
    pc \in {"clean_channels_1", "clean_channels_2", "clean_channels_3",
            "write", "done"}

\* C5: when remove_dead_links returns, every check has produced its outcome,
\* slot i holds the outcome of the check of channel i, and the channels
\* returned are those whose own request was answered ok, in input order.
C5_OwnOutcomeInOrder ==
    ChecksReturned =>
        /\ Len(results) = Len(all_channels)
        /\ \A i \in DOMAIN task : task[i] = "returned" /\ response[i] # "none"
        /\ \A i \in DOMAIN results :
             results[i] = IF response[i] = "ok"
                          THEN Some(heap[all_channels[i]].url)
                          ELSE None
        /\ channels = [k \in 1..Len(AnsweredOk(Len(all_channels))) |->
                          all_channels[AnsweredOk(Len(all_channels))[k]]]

\* C5 witness: three channels, the second one dead, the others returned.
C5_Witness ==
    /\ pc = "clean_channels_1"
    /\ response = <<"ok", "timeout", "ok">>
    /\ channels = <<all_channels[1], all_channels[3]>>

\* C6: a channel of category "XXX Movies" is absent from the list
\* clean_channels returns, for every use_mapping and use_difflib.
C6_XxxMoviesDropped ==
    (pc = "return" /\ "channels" \in DOMAIN arg) =>
        \A r \in Range(ret.cleaned) : arg.channels[r].category # "XXX Movies"

IsDirective(line) == StartsWith(Strip(line), "#EXTINF")

IsUrlLine(line) == Strip(line) # "" /\ ~StartsWith(Strip(line), "#")

\* C7: every channel parse_m3u emits pairs a URL line with the directive line
\* that immediately precedes it (no other directive and no other URL line in
\* between): a directive followed by another directive leaves nothing of its
\* name and category in any channel.
C7_UrlPairedWithOwnDirective ==
    pc = "return" /\ arg = <<>> =>
        LET lines == SplitLines(text)
        IN  \A c \in Range(ret) :
              \E i, j \in DOMAIN lines :
                /\ i < j
                /\ IsDirective(lines[i])
                /\ IsUrlLine(lines[j])
                /\ \A k \in (i + 1)..(j - 1) :
                     ~IsDirective(lines[k]) /\ ~IsUrlLine(lines[k])
                /\ Search(Strip(lines[i])).matched
                /\ c = Channel(NameOf(Search(Strip(lines[i]))),
                               CategoryOf(Search(Strip(lines[i]))),
                               Strip(lines[j]))

\* C8: every channel parse_m3u emits has a name, a category and a url that
\* are not empty.
C8_FieldsNotEmpty ==
    pc = "return" /\ arg = <<>> =>
        \A c \in Range(ret) : c.name # "" /\ c.category # "" /\ c.url # ""

HasQuote(s) == \E i \in 1..Len(s) : Char(s, i) = Quote

HasLineBreak(s) == \E i \in 1..Len(s) : IsLineBreak(Char(s, i))

PlainField(s) == s # "" /\ Strip(s) = s /\ ~HasQuote(s) /\ ~HasLineBreak(s)

\* a url that is a URL line of its own
PlainUrl(u) ==
    u # "" /\ Strip(u) = u /\ ~HasLineBreak(u) /\ ~StartsWith(u, "#")

PlainChannels(chs) ==
    \A c \in Range(chs) :
        PlainField(c.name) /\ PlainField(c.category) /\ PlainUrl(c.url)

SinglePass ==
    LET r == clean_channels(ParsedUpTo(Len(env.sources)), channels, TRUE, TRUE)
    IN  Deref(r.heap, r.cleaned)

\* C10: the list main serializes is the result of a single pass of
\* clean_channels (use_mapping and use_difflib on) over the alive channels
\* as parsed.
C10_SinglePass == pc = "done" => file = FileWith(generate_m3u(SinglePass))

====
